---- MODULE Spec2Model ----
(***************************************************************************)
(* The capture loop of the fog detection front end: the developer view     *)
(* (Home, page.tsx) and the driver view (DriverView, driver/page.tsx).     *)
(* One component instance is modelled from its first render to after its   *)
(* unmount, together with the pieces of the browser it drives: the video   *)
(* element, getUserMedia, the interval timer, canvas.toBlob and the HTTP   *)
(* round trip to the detection endpoint.                                   *)
(*                                                                         *)
(* Every handler of the component runs to completion (JavaScript is        *)
(* single threaded), so every handler is one action; an `await` or a       *)
(* callback splits a function into the actions before and after it.        *)
(*                                                                         *)
(* The detection service behind the endpoint is the second part: one       *)
(* request at a time goes through detect(pixelBuffer, laplacianThreshold,  *)
(* stdDevThreshold). Its source is not part of the front end; it is        *)
(* written down here from its specification, and SpecDetect runs it on     *)
(* every image and every pair of thresholds of a bounded set.              *)
(***************************************************************************)
EXTENDS Integers, Sequences, FiniteSets, TLC

\* Bounds of the model.
MaxStarts == 2      \* calls of startCamera in one behaviour
MaxReq == 2         \* capture cycles that reach canvas.toBlob in one behaviour

\* Program constants.
DEFAULT_LAPLACIAN_THRESHOLD == 250
DEFAULT_HIST_STD_DEV_THRESHOLD == 40

\* Positions of the two range inputs that the model tries.
LaplacianValues == {250, 500}
HistStdDevValues == {40, 100}

\* The min attributes of the two range inputs.
LaplacianMin == 50
HistStdDevMin == 10

\* null | x is modelled as a sequence of length 0 or 1.
Null == <<>>
Some(x) == <<x>>

VARIABLES
    view,                \* "dev" (Home) or "driver" (DriverView)
    phase,               \* where the component is in its life
    srcObject,           \* videoRef.current.srcObject: a stream id, 0 for null
    paused,              \* video.paused
    metaPending,         \* a loadedmetadata event is due for srcObject
    listeners,           \* registered handleMetadataLoaded closures, in order
    pendingStarts,       \* startCamera calls awaiting getUserMedia (closures)
    startCalls,          \* number of startCamera calls made
    acquired,            \* number of streams getUserMedia has handed out
    stopped,             \* streams whose tracks were all stopped
    intervalRef,         \* intervalRef.current: a timer id, 0 for null
    timers,              \* the armed interval timers
    isCameraOn,
    isCameraOnRef,       \* isCameraOnRef.current
    isLoading,
    isDetecting,
    detectionResult,
    error,
    histogramData,
    laplacianThreshold,
    histStdDevThreshold,
    blobs,               \* canvas.toBlob callbacks not yet run (closures)
    inflight,            \* axios.post calls not yet settled
    issued,              \* number of axios.post calls made
    lastOp,              \* the handler that took the last step
    stage,               \* detection service: "idle", "received", "responded"
    pixelBuffer,         \* the decoded image of the request, rows of pixels
    sent,                \* the thresholds the client put in the URL, or Null
    query,               \* the query parameters as they arrive
    statusCode,          \* the HTTP status of the response, 0 before it
    response             \* the body of the response

vars == <<view, phase, srcObject, paused, metaPending, listeners, pendingStarts,
          startCalls, acquired, stopped, intervalRef, timers, isCameraOn,
          isCameraOnRef, isLoading, isDetecting, detectionResult, error,
          histogramData, laplacianThreshold, histStdDevThreshold, blobs,
          inflight, issued, lastOp, stage, pixelBuffer, sent, query,
          statusCode, response>>

frontend == <<view, phase, srcObject, paused, metaPending, listeners,
              pendingStarts, startCalls, acquired, stopped, intervalRef,
              timers, isCameraOn, isCameraOnRef, isLoading, isDetecting,
              detectionResult, error, histogramData, laplacianThreshold,
              histStdDevThreshold, blobs, inflight, issued, lastOp>>
service == <<stage, pixelBuffer, sent, query, statusCode, response>>

reactState == <<isCameraOn, isLoading, isDetecting, detectionResult, error,
                histogramData>>
thresholds == <<laplacianThreshold, histStdDevThreshold>>
videoElement == <<srcObject, paused, metaPending, listeners>>
camera == <<pendingStarts, startCalls, acquired, stopped>>
loop == <<intervalRef, timers>>
network == <<blobs, inflight, issued>>

----------------------------------------------------------------------------
\* Helpers.

\* videoRef.current and canvasRef.current: React attaches both refs when the
\* component is committed and sets them to null when it is removed, before
\* the effect cleanup of the unmount runs.
videoRef == phase # "unmounted"
canvasRef == phase # "unmounted"

\* A state setter of an unmounted component does nothing.
Mounted == phase # "unmounted"

\* The handlers of the event loop run only between the synchronous phases
\* of mounting.
Async == phase \in {"mounted", "unmounted"}

\* video.ended: the attached stream has no live track left.
ended == srcObject # 0 /\ srcObject \in stopped

\* What captureAndDetect closes over: the thresholds of the render that
\* created it in the developer view, nothing in the driver view.
Closure ==
    IF view = "dev" THEN <<laplacianThreshold, histStdDevThreshold>> ELSE Null

RemoveAt(s, i) == SubSeq(s, 1, i - 1) \o SubSeq(s, i + 1, Len(s))

RECURSIVE Pick(_, _, _)
\* The elements of s whose index is in S, from index i on, in order.
Pick(s, S, i) ==
    IF i > Len(s) THEN <<>>
    ELSE (IF i \in S THEN <<s[i]>> ELSE <<>>) \o Pick(s, S, i + 1)

\* The early return of captureAndDetect.
CanCapture(isPaused) ==
    videoRef /\ canvasRef /\ isCameraOnRef /\ ~isPaused /\ ~ended

\* response.data.histogram of a successful response: absent, empty or filled.
HistogramChoices == {Null, Some(<<>>), Some(<<3, 1>>)}

\* A map that numbers the bins from 1.
processedHistFromOne(h) ==
    [i \in 1..Len(h) |-> [bin |-> i, frequency |-> h[i]]]

\* response.data.histogram.map((value, index) => ({bin, frequency})).
processedHist(h) ==
    [i \in 1..Len(h) |-> [bin |-> i - 1, frequency |-> h[i]]]

\* The ways axios.post rejects: the 5 s timeout, a non-2xx answer, no answer,
\* a request that was never sent, and a throw that is no AxiosError.
Failures ==
    { [axios |-> TRUE, code |-> "ECONNABORTED", status |-> 0, request |-> TRUE],
      [axios |-> TRUE, code |-> "ERR_BAD_REQUEST", status |-> 400, request |-> TRUE],
      [axios |-> TRUE, code |-> "ERR_BAD_RESPONSE", status |-> 500, request |-> TRUE],
      [axios |-> TRUE, code |-> "ERR_NETWORK", status |-> 0, request |-> TRUE],
      [axios |-> TRUE, code |-> "ERR_INVALID_URL", status |-> 0, request |-> FALSE],
      [axios |-> FALSE, code |-> "", status |-> 0, request |-> FALSE] }

ServerError(status) ==
    IF status = 400 THEN "Server error: 400" ELSE "Server error: 500"

\* A catch that looks at err.request before err.response.
errorMsgRequestFirst(e) ==
    IF ~e.axios THEN "System error."
    ELSE IF e.code = "ECONNABORTED" THEN "Connection timeout."
    ELSE IF e.request THEN "No server response."
    ELSE IF e.status # 0 THEN ServerError(e.status)
    ELSE "System error."

\* The message the driver view derives from a rejection.
errorMsg(e) ==
    IF ~e.axios THEN "System error."
    ELSE IF e.code = "ECONNABORTED" THEN "Connection timeout."
    ELSE IF e.status # 0 THEN ServerError(e.status)
    ELSE IF e.request THEN "No server response."
    ELSE "System error."

----------------------------------------------------------------------------
Init ==
    /\ view \in {"dev", "driver"}
    /\ phase = "init"
    /\ srcObject = 0
    /\ paused = TRUE
    /\ metaPending = FALSE
    /\ listeners = <<>>
    /\ pendingStarts = <<>>
    /\ startCalls = 0
    /\ acquired = 0
    /\ stopped = {}
    /\ intervalRef = 0
    /\ timers = {}
    /\ isCameraOn = FALSE
    /\ isCameraOnRef = FALSE
    /\ isLoading = FALSE
    /\ isDetecting = FALSE
    /\ detectionResult = Null
    /\ error = Null
    /\ histogramData = <<>>
    /\ laplacianThreshold = DEFAULT_LAPLACIAN_THRESHOLD
    /\ histStdDevThreshold = DEFAULT_HIST_STD_DEV_THRESHOLD
    /\ blobs = <<>>
    /\ inflight = {}
    /\ issued = 0
    /\ lastOp = "init"
    /\ stage = "idle"
    /\ pixelBuffer = Null
    /\ sent = Null
    /\ query = Null
    /\ statusCode = 0
    /\ response = Null

----------------------------------------------------------------------------
\* stopDetectionLoop: clearInterval(intervalRef.current); intervalRef.current = null.
stopDetectionLoop(ts) == {t \in ts : t.id # intervalRef}

\* startCamera up to its await of getUserMedia.
startCamera ==
    /\ startCalls < MaxStarts
    /\ error' = Null
    /\ isLoading' = TRUE
    /\ detectionResult' = Null
    /\ histogramData' = <<>>
    /\ pendingStarts' = Append(pendingStarts, Closure)
    /\ startCalls' = startCalls + 1
    /\ UNCHANGED <<view, isCameraOn, isCameraOnRef, isDetecting, acquired,
                   stopped, videoElement, loop, network, thresholds>>

\* stopCamera, run while videoRef.current is attached (the component is
\* mounted) or after it was detached (the cleanup of the unmount, when the
\* state setters do nothing either). Setting srcObject to null resets the
\* element: it is paused and a loadedmetadata event still due is dropped.
\* Every submission still in flight is marked as issued before a stop.
stopCamera(attached) ==
    /\ timers' = stopDetectionLoop(timers)
    /\ intervalRef' = 0
    /\ IF attached /\ srcObject # 0
       THEN /\ stopped' = stopped \cup {srcObject}
            /\ srcObject' = 0
            /\ paused' = TRUE
            /\ metaPending' = FALSE
       ELSE UNCHANGED <<stopped, srcObject, paused, metaPending>>
    /\ IF attached
       THEN /\ isCameraOn' = FALSE
            /\ detectionResult' = Null
            /\ histogramData' = <<>>
            /\ isLoading' = FALSE
            /\ isDetecting' = FALSE
            /\ error' = Null
       ELSE UNCHANGED reactState
    /\ inflight' = {[r EXCEPT !.stale = TRUE] : r \in inflight}
    /\ UNCHANGED <<view, isCameraOnRef, listeners, pendingStarts, startCalls,
                   acquired, blobs, issued, thresholds>>

----------------------------------------------------------------------------
\* The mount effect: useEffect(() => { startCamera(); return stopCamera }, []).
\* reactStrictMode is on, so a development build runs the effect, its
\* cleanup and the effect again before anything else; a production build
\* runs the effect once.
MountEffect ==
    /\ phase = "init"
    /\ startCamera
    /\ phase' \in {"mounted", "strictCleanup"}
    /\ lastOp' = "startCamera"
    /\ UNCHANGED service

StrictModeCleanup ==
    /\ phase = "strictCleanup"
    /\ stopCamera(videoRef)
    /\ phase' = "strictRerun"
    /\ lastOp' = "stopCamera"
    /\ UNCHANGED service

StrictModeRerun ==
    /\ phase = "strictRerun"
    /\ startCamera
    /\ phase' = "mounted"
    /\ lastOp' = "startCamera"
    /\ UNCHANGED service

\* The Start Camera button of the developer view: disabled={isCameraOn || isLoading}.
ClickStart ==
    /\ view = "dev"
    /\ phase = "mounted"
    /\ ~(isCameraOn \/ isLoading)
    /\ startCamera
    /\ UNCHANGED phase
    /\ lastOp' = "startCamera"
    /\ UNCHANGED service

\* The Stop Camera button of the developer view: disabled={!isCameraOn}.
ClickStop ==
    /\ view = "dev"
    /\ phase = "mounted"
    /\ isCameraOn
    /\ stopCamera(videoRef)
    /\ UNCHANGED phase
    /\ lastOp' = "stopCamera"
    /\ UNCHANGED service

\* The component is removed: the refs are detached, then the cleanup of the
\* mount effect calls stopCamera.
Unmount ==
    /\ phase = "mounted"
    /\ phase' = "unmounted"
    /\ stopCamera(FALSE)
    /\ lastOp' = "stopCamera"
    /\ UNCHANGED service

----------------------------------------------------------------------------
\* getUserMedia resolves for the i-th waiting startCamera call, which goes
\* on: srcObject = stream, setIsCameraOn(true), addEventListener, play().
\* Assigning srcObject starts a new load of the element, so a loadedmetadata
\* event of the stream attached before is dropped and one for the new stream
\* becomes due.
GetUserMediaResolve(i) ==
    /\ Async
    /\ acquired' = acquired + 1
    /\ pendingStarts' = RemoveAt(pendingStarts, i)
    /\ IF videoRef
       THEN /\ srcObject' = acquired + 1
            /\ isCameraOn' = TRUE
            /\ listeners' = Append(listeners, pendingStarts[i])
            /\ metaPending' = TRUE
            /\ paused' = FALSE
       ELSE UNCHANGED <<srcObject, isCameraOn, listeners, metaPending, paused>>
    /\ lastOp' = "getUserMedia:resolve"
    /\ UNCHANGED service
    /\ UNCHANGED <<view, phase, startCalls, stopped, loop, isCameraOnRef,
                   isLoading, isDetecting, detectionResult, error,
                   histogramData, thresholds, network>>

\* A catch of startCamera without its setIsLoading(false).
GetUserMediaRejectKeepsLoading(i) ==
    /\ Async
    /\ pendingStarts' = RemoveAt(pendingStarts, i)
    /\ IF Mounted
       THEN /\ error' = IF view = "driver"
                        THEN Some("Camera unavailable. Check permissions.")
                        ELSE error
            /\ isCameraOn' = FALSE
       ELSE UNCHANGED <<error, isCameraOn>>
    /\ lastOp' = "getUserMedia:reject"
    /\ UNCHANGED service
    /\ UNCHANGED <<view, phase, startCalls, acquired, stopped, videoElement,
                   loop, isCameraOnRef, isLoading, isDetecting,
                   detectionResult, histogramData, thresholds, network>>

\* getUserMedia rejects for the i-th waiting startCamera call: its catch.
\* Only the driver view sets an error message.
GetUserMediaReject(i) ==
    /\ Async
    /\ pendingStarts' = RemoveAt(pendingStarts, i)
    /\ IF Mounted
       THEN /\ error' = IF view = "driver"
                        THEN Some("Camera unavailable. Check permissions.")
                        ELSE error
            /\ isLoading' = FALSE
            /\ isCameraOn' = FALSE
       ELSE UNCHANGED <<error, isLoading, isCameraOn>>
    /\ lastOp' = "getUserMedia:reject"
    /\ UNCHANGED service
    /\ UNCHANGED <<view, phase, startCalls, acquired, stopped, videoElement,
                   loop, isCameraOnRef, isDetecting, detectionResult,
                   histogramData, thresholds, network>>

\* useEffect(() => { isCameraOnRef.current = isCameraOn }, [isCameraOn]):
\* the ref follows the state one render later.
SyncCameraRef ==
    /\ phase = "mounted"
    /\ isCameraOnRef # isCameraOn
    /\ isCameraOnRef' = isCameraOn
    /\ lastOp' = "effect:isCameraOnRef"
    /\ UNCHANGED service
    /\ UNCHANGED <<view, phase, videoElement, camera, loop, reactState,
                   thresholds, network>>

\* The id setInterval returns: one no armed timer has.
NewTimer(ts) ==
    CHOOSE n \in 1..(Cardinality(ts) + 1) : \A t \in ts : t.id # n

\* A startDetectionLoop that arms its timer without the stopDetectionLoop
\* of line 230.
armTimerKeepsPrevious(ts, c) ==
    ts \cup {[id |-> NewTimer(ts), thr |-> c]}

\* startDetectionLoop but for its immediate captureAndDetect: the timer
\* held in intervalRef is cleared and a new one is armed with the
\* captureAndDetect of closure c.
armTimer(ts, c) ==
    stopDetectionLoop(ts) \cup {[id |-> NewTimer(stopDetectionLoop(ts)), thr |-> c]}

\* The loadedmetadata event of the attached stream: every registered
\* handleMetadataLoaded runs once, in the order of registration:
\* setIsLoading(false), videoRef.current?.play(), startDetectionLoop().
\* Each startDetectionLoop clears the timer of the one before, so the timer
\* of the last handler stays; each runs captureAndDetect once, and S is the
\* set of handlers whose frame reaches canvas.toBlob.
LoadedMetadata(S) ==
    /\ Async
    /\ metaPending
    /\ srcObject # 0
    /\ listeners # <<>>
    /\ metaPending' = FALSE
    /\ listeners' = <<>>
    /\ isLoading' = IF Mounted THEN FALSE ELSE isLoading
    /\ paused' = IF videoRef THEN FALSE ELSE paused
    /\ timers' = armTimer(timers, listeners[Len(listeners)])
    /\ intervalRef' = NewTimer(stopDetectionLoop(timers))
    /\ IF CanCapture(paused') THEN TRUE ELSE S = {}
    /\ Len(blobs) + issued + Cardinality(S) <= MaxReq
    /\ blobs' = blobs \o Pick(listeners, S, 1)
    /\ lastOp' = "loadedmetadata"
    /\ UNCHANGED service
    /\ UNCHANGED <<view, phase, srcObject, camera, isCameraOn, isCameraOnRef,
                   isDetecting, detectionResult, error, histogramData,
                   thresholds, inflight, issued>>

----------------------------------------------------------------------------
\* A tick of armed timer t calls the captureAndDetect the timer was armed
\* with. The call returns at once when its guard fails.
TickReturns(t) ==
    /\ Async
    /\ t \in timers
    /\ ~CanCapture(paused)
    /\ lastOp' = "tick:return"
    /\ UNCHANGED service
    /\ UNCHANGED <<view, phase, videoElement, camera, loop, reactState,
                   isCameraOnRef, thresholds, network>>

\* A captureAndDetect that reports a frame it cannot rasterize as a failed
\* cycle.
TickRasterFailsAsError(t) ==
    /\ Async
    /\ t \in timers
    /\ CanCapture(paused)
    /\ detectionResult' = Null
    /\ error' = Some("System error.")
    /\ lastOp' = "tick:rasterFails"
    /\ UNCHANGED service
    /\ UNCHANGED <<view, phase, videoElement, camera, loop, isCameraOn,
                   isLoading, isDetecting, histogramData, isCameraOnRef,
                   thresholds, network>>

\* The frame cannot be rasterized: canvas.getContext gives null or drawImage
\* throws. captureAndDetect logs and returns.
TickRasterFails(t) ==
    /\ Async
    /\ t \in timers
    /\ CanCapture(paused)
    /\ lastOp' = "tick:rasterFails"
    /\ UNCHANGED service
    /\ UNCHANGED <<view, phase, videoElement, camera, loop, reactState,
                   isCameraOnRef, thresholds, network>>

\* The frame is drawn and canvas.toBlob is called: its callback is queued.
TickCaptures(t) ==
    /\ Async
    /\ t \in timers
    /\ CanCapture(paused)
    /\ Len(blobs) + issued < MaxReq
    /\ blobs' = Append(blobs, t.thr)
    /\ lastOp' = "tick:toBlob"
    /\ UNCHANGED service
    /\ UNCHANGED <<view, phase, videoElement, camera, loop, reactState,
                   isCameraOnRef, thresholds, inflight, issued>>

\* The toBlob callback runs without a blob: it logs and returns.
BlobFails(i) ==
    /\ Async
    /\ i \in 1..Len(blobs)
    /\ blobs' = RemoveAt(blobs, i)
    /\ lastOp' = "toBlob:null"
    /\ UNCHANGED service
    /\ UNCHANGED <<view, phase, videoElement, camera, loop, reactState,
                   isCameraOnRef, thresholds, inflight, issued>>

\* The toBlob callback runs with a blob: setIsDetecting(true) and
\* axios.post, with the thresholds of its closure in the developer view.
Submit(i) ==
    /\ Async
    /\ i \in 1..Len(blobs)
    /\ blobs' = RemoveAt(blobs, i)
    /\ issued' = issued + 1
    /\ inflight' = inflight \cup
           {[id |-> issued + 1, thr |-> blobs[i], stale |-> FALSE]}
    /\ isDetecting' = IF Mounted THEN TRUE ELSE isDetecting
    /\ lastOp' = "submit"
    /\ UNCHANGED service
    /\ UNCHANGED <<view, phase, videoElement, camera, loop, isCameraOn,
                   isCameraOnRef, isLoading, detectionResult, error,
                   histogramData, thresholds>>

\* The body of the 2xx response to request r, with histogram h.
ResponseData(r, h) == [req |-> r.id, histogram |-> h]

\* A try block without the finally: isDetecting is left as it is.
publishResultNoFinally(data, h) ==
    /\ detectionResult' = Some(data)
    /\ error' = Null
    /\ histogramData' =
           IF view = "dev"
           THEN (IF h # Null /\ Len(h[1]) > 0
                 THEN processedHist(h[1]) ELSE <<>>)
           ELSE histogramData
    /\ UNCHANGED isDetecting

\* What the try block and the finally do to the state of a mounted
\* component after a 2xx response with body data, whose histogram is h.
publishResult(data, h) ==
    /\ detectionResult' = Some(data)
    /\ error' = Null
    /\ histogramData' =
           IF view = "dev"
           THEN (IF h # Null /\ Len(h[1]) > 0
                 THEN processedHist(h[1]) ELSE <<>>)
           ELSE histogramData
    /\ isDetecting' = FALSE

\* axios.post of request r resolves: the try block and the finally.
ResponseSuccess(r, h) ==
    /\ Async
    /\ r \in inflight
    /\ inflight' = inflight \ {r}
    /\ IF Mounted
       THEN publishResult(ResponseData(r, h), h)
       ELSE UNCHANGED <<detectionResult, error, histogramData, isDetecting>>
    /\ lastOp' = "response:success"
    /\ UNCHANGED service
    /\ UNCHANGED <<view, phase, videoElement, camera, loop, isCameraOn,
                   isCameraOnRef, isLoading, thresholds, blobs, issued>>

\* A catch block that gives up the loop after a failed submission.
ResponseFailureStopsLoop(r, e) ==
    /\ Async
    /\ r \in inflight
    /\ inflight' = inflight \ {r}
    /\ timers' = stopDetectionLoop(timers)
    /\ intervalRef' = 0
    /\ IF Mounted
       THEN /\ detectionResult' = Null
            /\ error' = IF view = "driver" THEN Some(errorMsg(e)) ELSE error
            /\ histogramData' = IF view = "dev" THEN <<>> ELSE histogramData
            /\ isDetecting' = FALSE
       ELSE UNCHANGED <<detectionResult, error, histogramData, isDetecting>>
    /\ lastOp' = "response:failure"
    /\ UNCHANGED service
    /\ UNCHANGED <<view, phase, videoElement, camera, isCameraOn,
                   isCameraOnRef, isLoading, thresholds, blobs, issued>>

\* A catch block that leaves the result of the cycle before on display.
publishFailureKeepsResult(e) ==
    /\ error' = IF view = "driver" THEN Some(errorMsg(e)) ELSE error
    /\ isDetecting' = FALSE
    /\ UNCHANGED <<detectionResult, histogramData>>

\* A catch without its setHistogramData([]).
publishFailureKeepsHistogram(e) ==
    /\ detectionResult' = Null
    /\ error' = IF view = "driver" THEN Some(errorMsg(e)) ELSE error
    /\ UNCHANGED histogramData
    /\ isDetecting' = FALSE

\* What the catch block and the finally do to the state of a mounted
\* component after the rejection e: the developer view clears the result
\* and the histogram; the driver view sets the error message and clears
\* the result.
publishFailure(e) ==
    /\ detectionResult' = Null
    /\ error' = IF view = "driver" THEN Some(errorMsg(e)) ELSE error
    /\ histogramData' = IF view = "dev" THEN <<>> ELSE histogramData
    /\ isDetecting' = FALSE

\* axios.post of request r rejects with e: the catch block and the finally.
ResponseFailure(r, e) ==
    /\ Async
    /\ r \in inflight
    /\ inflight' = inflight \ {r}
    /\ IF Mounted
       THEN publishFailure(e)
       ELSE UNCHANGED <<detectionResult, error, histogramData, isDetecting>>
    /\ lastOp' = "response:failure"
    /\ UNCHANGED service
    /\ UNCHANGED <<view, phase, videoElement, camera, loop, isCameraOn,
                   isCameraOnRef, isLoading, thresholds, blobs, issued>>

\* A range input without its disabled attribute.
SetLaplacianThresholdAlwaysEnabled(v) ==
    /\ view = "dev"
    /\ phase = "mounted"
    /\ v # laplacianThreshold
    /\ laplacianThreshold' = v
    /\ lastOp' = "setThreshold"
    /\ UNCHANGED service
    /\ UNCHANGED <<view, phase, videoElement, camera, loop, reactState,
                   isCameraOnRef, histStdDevThreshold, network>>

\* The range inputs of the developer view: disabled={!isCameraOn}.
SetLaplacianThreshold(v) ==
    /\ view = "dev"
    /\ phase = "mounted"
    /\ isCameraOn
    /\ v # laplacianThreshold
    /\ laplacianThreshold' = v
    /\ lastOp' = "setThreshold"
    /\ UNCHANGED service
    /\ UNCHANGED <<view, phase, videoElement, camera, loop, reactState,
                   isCameraOnRef, histStdDevThreshold, network>>

SetHistStdDevThreshold(v) ==
    /\ view = "dev"
    /\ phase = "mounted"
    /\ isCameraOn
    /\ v # histStdDevThreshold
    /\ histStdDevThreshold' = v
    /\ lastOp' = "setThreshold"
    /\ UNCHANGED service
    /\ UNCHANGED <<view, phase, videoElement, camera, loop, reactState,
                   isCameraOnRef, laplacianThreshold, network>>

----------------------------------------------------------------------------
Next ==
    \/ MountEffect
    \/ StrictModeCleanup
    \/ StrictModeRerun
    \/ ClickStart
    \/ ClickStop
    \/ Unmount
    \/ \E i \in 1..Len(pendingStarts) : GetUserMediaResolve(i)
    \/ \E i \in 1..Len(pendingStarts) : GetUserMediaReject(i)
    \/ SyncCameraRef
    \/ \E S \in SUBSET (1..Len(listeners)) : LoadedMetadata(S)
    \/ \E t \in timers : TickReturns(t)
    \/ \E t \in timers : TickRasterFails(t)
    \/ \E t \in timers : TickCaptures(t)
    \/ \E i \in 1..Len(blobs) : BlobFails(i)
    \/ \E i \in 1..Len(blobs) : Submit(i)
    \/ \E r \in inflight, h \in HistogramChoices : ResponseSuccess(r, h)
    \/ \E r \in inflight, e \in Failures : ResponseFailure(r, e)
    \/ \E v \in LaplacianValues : SetLaplacianThreshold(v)
    \/ \E v \in HistStdDevValues : SetHistStdDevThreshold(v)

Spec == Init /\ [][Next]_vars

\* axios.post of request n settles: it resolves or it rejects.
Settle(n) ==
    \E r \in inflight :
        /\ r.id = n
        /\ \/ \E h \in HistogramChoices : ResponseSuccess(r, h)
           \/ \E e \in Failures : ResponseFailure(r, e)

\* The capture loop with the sliders also dragged to their lower ends.
SliderNext ==
    \/ Next
    \/ SetLaplacianThreshold(LaplacianMin)
    \/ SetHistStdDevThreshold(HistStdDevMin)

SpecSliders == Init /\ [][SliderNext]_vars

\* getUserMedia settles for a waiting startCamera call.
GetUserMediaSettles ==
    \E i \in 1..Len(pendingStarts) :
        GetUserMediaResolve(i) \/ GetUserMediaReject(i)

\* The loadedmetadata event that is due is dispatched.
MetadataArrives == \E S \in SUBSET (1..Len(listeners)) : LoadedMetadata(S)

\* Every axios.post carries timeout: 5000, so none stays unsettled: the
\* response handler of each request runs at the latest when its timeout
\* has rejected it. The browser settles every getUserMedia promise, and it
\* dispatches loadedmetadata for a stream that stays attached. React runs
\* the cleanup and the second run of the mount effect in the same commit.
FairSpec ==
    /\ Spec
    /\ \A n \in 1..MaxReq : WF_vars(Settle(n))
    /\ WF_vars(GetUserMediaSettles)
    /\ WF_vars(MetadataArrives)
    /\ WF_vars(StrictModeCleanup \/ StrictModeRerun)

----------------------------------------------------------------------------
\* The detection service.

\* Bounds of the images the service is run on.
MaxWidth == 2       \* columns of an image

\* Rows of an image, and the grey levels of its pixels.
ImageHeights == {1, 2}
PixelValues == {0, 20, 255}

\* Thresholds a request names, both within the range of the range inputs.
LaplacianThresholds == {400, 500}
StdDevThresholds == {10, 15, 20}

\* Decoded single-channel images: Height rows of Width values in [0,255].
Images ==
    UNION {[1..h -> [1..w -> PixelValues]] : h \in ImageHeights, w \in 1..MaxWidth}

Height(img) == Len(img)
Width(img) == Len(img[1])
Positions(img) == (1..Height(img)) \X (1..Width(img))

\* Number.prototype.toString of a non-negative integer: its decimal digits.
RECURSIVE toString(_)
toString(n) ==
    IF n < 10 THEN <<n>> ELSE toString(n \div 10) \o <<n % 10>>

\* The query string of the request URL: both thresholds in the developer
\* view, none in the driver view.
urlParams(c) ==
    IF c = Null
    THEN [laplacian_threshold |-> Null, std_dev_threshold |-> Null]
    ELSE [laplacian_threshold |-> Some(toString(c[1])),
          std_dev_threshold |-> Some(toString(c[2]))]

\* The service's reading of a decimal parameter.
RECURSIVE parseFloat(_)
parseFloat(s) ==
    IF s = <<>> THEN 0
    ELSE 10 * parseFloat(SubSeq(s, 1, Len(s) - 1)) + s[Len(s)]

\* Defaults of the two query parameters.
DefaultThresholds == [laplacian_threshold |-> 250, std_dev_threshold |-> 40]

\* A service that classifies with its defaults whatever the request names.
thresholdsUsedIgnoresQuery(q) == DefaultThresholds

\* The thresholds of a request: the parameter when given, else the default.
thresholdsUsed(q) ==
    [laplacian_threshold |->
        IF q.laplacian_threshold = Null
        THEN DefaultThresholds.laplacian_threshold
        ELSE parseFloat(q.laplacian_threshold[1]),
     std_dev_threshold |->
        IF q.std_dev_threshold = Null
        THEN DefaultThresholds.std_dev_threshold
        ELSE parseFloat(q.std_dev_threshold[1])]

Clamp(i, n) == IF i < 1 THEN 1 ELSE IF i > n THEN n ELSE i

\* The grey level at row y, column x; outside the image the nearest pixel
\* of the image is read.
pixel(img, y, x) == img[Clamp(y, Height(img))][Clamp(x, Width(img))]

\* The response of the discrete Laplacian kernel at every pixel.
laplacian(img) ==
    [p \in Positions(img) |->
        pixel(img, p[1] - 1, p[2]) + pixel(img, p[1] + 1, p[2])
      + pixel(img, p[1], p[2] - 1) + pixel(img, p[1], p[2] + 1)
      - 4 * pixel(img, p[1], p[2])]

RECURSIVE Sum(_, _)
\* The sum of f over the finite set S.
Sum(f, S) ==
    IF S = {} THEN 0
    ELSE LET x == CHOOSE y \in S : TRUE IN f[x] + Sum(f, S \ {x})

RECURSIVE SumRange(_, _, _)
\* The sum of f[lo] .. f[hi].
SumRange(f, lo, hi) ==
    IF lo > hi THEN 0
    ELSE IF lo = hi THEN f[lo]
    ELSE LET mid == (lo + hi) \div 2
         IN  SumRange(f, lo, mid) + SumRange(f, mid + 1, hi)

\* Real numbers are kept exact: num/den, or its square root when root.

\* The variance of the values of f.
laplacianVariance(f) ==
    LET n == Cardinality(DOMAIN f)
        s1 == Sum(f, DOMAIN f)
        s2 == Sum([x \in DOMAIN f |-> f[x] * f[x]], DOMAIN f)
    IN  [num |-> n * s2 - s1 * s1, den |-> n * n, root |-> FALSE]

\* A histogram that does not count saturated pixels.
histogramSkipsWhite(img) ==
    [b \in 0..255 |->
        IF b = 255 THEN 0
        ELSE Cardinality({p \in Positions(img) : img[p[1]][p[2]] = b})]

\* The 256-bin intensity histogram.
histogram(img) ==
    [b \in 0..255 |-> Cardinality({p \in Positions(img) : img[p[1]][p[2]] = b})]

\* The standard deviation of the 256 bin counts themselves.
histogramStdDevOfCounts(h) ==
    LET n == Cardinality(DOMAIN h)
        s1 == SumRange(h, 0, 255)
        s2 == SumRange([b \in DOMAIN h |-> h[b] * h[b]], 0, 255)
    IN  [num |-> n * s2 - s1 * s1, den |-> n * n, root |-> TRUE]

\* The standard deviation of the intensities, from the histogram h.
histogramStdDev(h) ==
    LET B == {b \in DOMAIN h : h[b] # 0}
        n == Sum(h, B)
        s1 == Sum([b \in B |-> b * h[b]], B)
        s2 == Sum([b \in B |-> b * b * h[b]], B)
    IN  [num |-> n * s2 - s1 * s1, den |-> n * n, root |-> TRUE]

\* x < t for a real x and a threshold t.
LessThan(x, t) ==
    IF x.root THEN x.num < t * t * x.den ELSE x.num < t * x.den

\* The ratio taken the other way round: t / x <= 1 / k.
RatioAtMostInverted(x, t, k) ==
    IF x.root THEN k * k * t * t * x.den <= x.num ELSE k * t * x.den <= x.num

\* x / t <= 1 / k.
RatioAtMost(x, t, k) ==
    IF x.root THEN k * k * x.num <= t * t * x.den ELSE k * x.num <= t * x.den

\* A rule that asks for one condition only.
fogDetectedEither(lv, sd, lt, st) == LessThan(lv, lt) \/ LessThan(sd, st)

\* Classification policy: both conditions required.
fogDetected(lv, sd, lt, st) == LessThan(lv, lt) /\ LessThan(sd, st)

\* min(lv / lt, sd / st) <= 1 / k.
MinRatioAtMost(lv, sd, lt, st, k) ==
    RatioAtMost(lv, lt, k) \/ RatioAtMost(sd, st, k)

\* Tiers with Heavy only from a shortfall above one half.
intensityHeavyAboveHalf(lv, sd, lt, st) ==
    IF ~MinRatioAtMost(lv, sd, lt, st, 1) THEN "Clear"
    ELSE IF \/ LessThan([lv EXCEPT !.num = 2 * @], lt)
            \/ LessThan([sd EXCEPT !.num = 4 * @], st) THEN "Heavy"
    ELSE "Light"

\* Intensity tiering on shortfall = 1 - min(lv / lt, sd / st):
\* shortfall < 0 is Clear, 0 <= shortfall < 0.5 is Light, else Heavy.
intensity(lv, sd, lt, st) ==
    IF ~MinRatioAtMost(lv, sd, lt, st, 1) THEN "Clear"
    ELSE IF ~MinRatioAtMost(lv, sd, lt, st, 2) THEN "Light"
    ELSE "Heavy"

\* The fixed advice of each intensity.
advice(i) ==
    CASE i = "Clear" -> "Conditions clear"
      [] i = "Light" -> "Reduce speed, use fog lights"
      [] i = "Heavy" -> "Pull over safely if visibility is critical"

\* detect(pixelBuffer, laplacianThreshold, stdDevThreshold).
detect(img, lt, st) ==
    LET lv == laplacianVariance(laplacian(img))
        h == histogram(img)
        sd == histogramStdDev(h)
        i == intensity(lv, sd, lt, st)
    IN  [fog_detected |-> fogDetected(lv, sd, lt, st),
         laplacian_variance |-> lv,
         histogram_std_dev |-> sd,
         intensity |-> i,
         advice |-> advice(i),
         histogram |-> h,
         laplacian_threshold_used |-> lt,
         std_dev_threshold_used |-> st]

\* An upload the service cannot decode.
Undecodable == <<>>

\* What a request carries: an encoded image, or bytes that are none.
Buffers == Images \cup {Undecodable}

\* The result of the last cycle that a running view may have on display.
PreviousResults == {Null, Some([req |-> 1, histogram |-> Some(<<3, 1>>)])}

\* A mounted view whose loop runs on stream 1 with the captureAndDetect of
\* closure c, the result prev of an earlier cycle on display, nothing in
\* flight, and the service waiting.
DetectInit ==
    /\ view \in {"dev", "driver"}
    /\ \E c \in {Null} \cup (LaplacianThresholds \X StdDevThresholds),
          prev \in PreviousResults :
          /\ (c = Null) <=> (view = "driver")
          /\ laplacianThreshold =
                 IF c = Null THEN DEFAULT_LAPLACIAN_THRESHOLD ELSE c[1]
          /\ histStdDevThreshold =
                 IF c = Null THEN DEFAULT_HIST_STD_DEV_THRESHOLD ELSE c[2]
          /\ timers = {[id |-> 1, thr |-> c]}
          /\ detectionResult = prev
          /\ histogramData =
                 IF view = "dev" /\ prev # Null
                 THEN processedHist(prev[1].histogram[1]) ELSE <<>>
          /\ issued = IF prev = Null THEN 0 ELSE 1
          /\ lastOp = IF prev = Null THEN "loadedmetadata" ELSE "response:success"
    /\ phase = "mounted"
    /\ srcObject = 1
    /\ paused = FALSE
    /\ metaPending = FALSE
    /\ listeners = <<>>
    /\ pendingStarts = <<>>
    /\ startCalls = 1
    /\ acquired = 1
    /\ stopped = {}
    /\ intervalRef = 1
    /\ isCameraOn = TRUE
    /\ isCameraOnRef = TRUE
    /\ isLoading = FALSE
    /\ isDetecting = FALSE
    /\ error = Null
    /\ blobs = <<>>
    /\ inflight = {}
    /\ stage = "idle"
    /\ pixelBuffer = Null
    /\ sent = Null
    /\ query = Null
    /\ statusCode = 0
    /\ response = Null

\* A tick of the timer captures a frame and its toBlob callback posts the
\* buffer buf: setIsDetecting(true) and axios.post, with the thresholds of
\* the closure in the URL in the developer view and none in the driver view.
Receive(buf, c) ==
    /\ stage = "idle"
    /\ inflight = {}
    /\ \E t \in timers : t.thr = c
    /\ CanCapture(paused)
    /\ issued' = issued + 1
    /\ inflight' = {[id |-> issued + 1, thr |-> c, stale |-> FALSE]}
    /\ isDetecting' = TRUE
    /\ lastOp' = "submit"
    /\ stage' = "received"
    /\ pixelBuffer' = buf
    /\ sent' = c
    /\ query' = urlParams(c)
    /\ UNCHANGED <<statusCode, response>>
    /\ UNCHANGED <<view, phase, videoElement, camera, loop, isCameraOn,
                   isCameraOnRef, isLoading, detectionResult, error,
                   histogramData, thresholds, blobs>>

\* The endpoint answers the request: the result of detect, or a failure
\* with an error description when the buffer cannot be decoded.
Detect ==
    /\ stage = "received"
    /\ stage' = "responded"
    /\ IF pixelBuffer = Undecodable
       THEN /\ statusCode' = 400
            /\ response' = [detail |-> "DecodeError"]
       ELSE /\ statusCode' = 200
            /\ response' = detect(pixelBuffer,
                                  thresholdsUsed(query).laplacian_threshold,
                                  thresholdsUsed(query).std_dev_threshold)
    /\ UNCHANGED <<pixelBuffer, sent, query>>
    /\ UNCHANGED frontend

\* The histogram of a response body as the JSON array the client reads.
histogramArray(h) == [i \in 1..256 |-> h[i - 1]]

\* How axios.post settles for a response of status st: it resolves for
\* 2xx and rejects with the status otherwise.
Rejection(st) == CHOOSE e \in Failures : e.status = st

\* The response reaches the client: the try block of captureAndDetect for
\* a 2xx status, its catch block otherwise, and the finally.
Deliver ==
    /\ stage = "responded"
    /\ stage' = "delivered"
    /\ inflight' = {}
    /\ IF statusCode \in 200..299
       THEN /\ publishResult(response, Some(histogramArray(response.histogram)))
            /\ lastOp' = "response:success"
       ELSE /\ publishFailure(Rejection(statusCode))
            /\ lastOp' = "response:failure"
    /\ UNCHANGED <<pixelBuffer, sent, query, statusCode, response>>
    /\ UNCHANGED <<view, phase, videoElement, camera, loop, isCameraOn,
                   isCameraOnRef, isLoading, thresholds, blobs, issued>>

DetectNext ==
    \/ \E buf \in Buffers, c \in {Null} \cup (LaplacianThresholds \X StdDevThresholds) :
           Receive(buf, c)
    \/ Detect
    \/ Deliver

SpecDetect == DetectInit /\ [][DetectNext]_vars

----------------------------------------------------------------------------
\* The states of the loop, as the views show them.
Idle == ~isCameraOn /\ ~isLoading /\ pendingStarts = <<>>
Running == isCameraOn /\ srcObject # 0 /\ intervalRef # 0

\* The streams getUserMedia handed out that still have a live track.
LiveStreams == (1..acquired) \ stopped

UiThresholds == <<laplacianThreshold, histStdDevThreshold>>

ResponseStep == lastOp' \in {"response:success", "response:failure"}

\* The state of the loop as the component tracks it: isLoading from
\* startCamera until the stream's metadata arrive, isCameraOn from the
\* attachment of the stream until stopCamera.
LoopState ==
    IF isLoading THEN "Starting" ELSE IF isCameraOn THEN "Running" ELSE "Idle"

\* Request n is issued and not settled.
InFlight(n) == \E r \in inflight : r.id = n

\* The service has answered the request it received with a result.
Responded == stage = "responded" /\ statusCode = 200

\* The tiers in the order of their severity.
Severity(i) == CASE i = "Clear" -> 0 [] i = "Light" -> 1 [] i = "Heavy" -> 2

\* A constant-intensity image.
Uniform(img) == \A p, q \in Positions(img) : img[p[1]][p[2]] = img[q[1]][q[2]]

----------------------------------------------------------------------------
\* C1: in every reachable state at most one submission to the detection
\* endpoint is issued and not yet resolved.
C1_AtMostOneUnresolved == Cardinality(inflight) <= 1

\* C2: a response to a submission issued before stopCamera that arrives
\* after stopCamera ran changes none of detectionResult, error and
\* histogramData.
C2_LateResponseDiscarded ==
    [][\A r \in inflight :
          (ResponseStep /\ r.stale /\ r \notin inflight')
              => UNCHANGED <<detectionResult, error, histogramData>>]_vars

\* C3: outcomes are applied in the order their requests were issued: when
\* the outcome of a request is applied, no request issued before it is
\* still unresolved.
C3_PublishedInIssueOrder ==
    [][\A r \in inflight :
          (ResponseStep /\ Mounted /\ r \notin inflight')
              => \A q \in inflight : q.id >= r.id]_vars

\* C4: at most one acquired stream is live at any time, and whenever the
\* loop is Idle every acquired stream has had its tracks stopped.
C4_DeviceNeverLeaked ==
    /\ Cardinality(LiveStreams) <= 1
    /\ Idle => LiveStreams = {}

\* C5: right after stopCamera, from any state, the timer is cancelled, the
\* held stream is stopped and detached, and (in a component that still has
\* state) isCameraOn, isLoading, detectionResult, error and histogramData
\* are reset.
C5_StopCameraReachesIdle ==
    [][lastOp' = "stopCamera" =>
          /\ intervalRef' = 0
          /\ srcObject # 0 => srcObject \in stopped'
          /\ srcObject' = 0
          /\ Mounted' =>
                 /\ ~isCameraOn'
                 /\ ~isLoading'
                 /\ detectionResult' = Null
                 /\ error' = Null
                 /\ histogramData' = <<>>]_vars

\* C6: a failed submission publishes an error and clears the previous
\* result, in the developer view as in the driver view.
C6_FailurePublishesError ==
    (lastOp = "response:failure" /\ Mounted)
        => (error # Null /\ detectionResult = Null)

\* C7: when getUserMedia fails the loop is back in Idle with no timer armed
\* and an error is reported, in both views.
C7_DeviceUnavailableReported ==
    (lastOp = "getUserMedia:reject" /\ Mounted)
        => (~isCameraOn /\ ~isLoading /\ intervalRef = 0 /\ error # Null)

\* C8: a failed submission neither disarms the timer nor releases the
\* camera nor changes what the guard of the next tick reads, and a
\* submission that succeeds afterwards publishes its own result and clears
\* the error.
C8_FailedCycleNotFatal ==
    [][/\ lastOp' = "response:failure" =>
              UNCHANGED <<intervalRef, timers, srcObject, stopped, paused,
                          isCameraOn, isCameraOnRef, phase>>
       /\ (lastOp' = "response:success" /\ Mounted) =>
              /\ error' = Null
              /\ detectionResult' # Null
              /\ \E r \in inflight \ inflight' :
                     detectionResult'[1].req = r.id]_vars

\* A submission has just failed while the loop runs on: the timer is armed,
\* the stream is attached and the next tick passes the guard.
C8_Witness ==
    /\ lastOp = "response:failure"
    /\ Running
    /\ timers # {}
    /\ CanCapture(paused)

\* C9: every submission of the developer view carries the thresholds the
\* UI shows when it is issued.
C9_SubmissionCarriesCurrentThresholds ==
    (lastOp = "submit" /\ view = "dev")
        => \A r \in inflight : r.id = issued => r.thr = UiThresholds

\* C10: a cycle whose frame cannot be rasterized or encoded issues no
\* submission and leaves detectionResult, error, histogramData, isDetecting
\* and the timer as they were.
C10_RasterFailureIsNoOp ==
    [][lastOp' \in {"tick:rasterFails", "toBlob:null"} =>
          UNCHANGED <<inflight, issued, detectionResult, error, histogramData,
                      isDetecting, intervalRef, timers>>]_vars

\* A frame failed to rasterize while a result was on display and the timer
\* armed.
C10_Witness ==
    /\ lastOp = "tick:rasterFails"
    /\ detectionResult # Null
    /\ intervalRef # 0
    /\ timers # {}

\* C11: when the handler of a successful start runs, the loop is Running
\* (camera on, stream attached, timer armed) and its immediate
\* captureAndDetect passes the guard, so a cycle is performed before the
\* first interval elapses.
C11_ImmediateCycleOnStart ==
    (lastOp = "loadedmetadata" /\ Mounted)
        => (Running /\ timers # {} /\ CanCapture(paused))

\* C12: at most one interval timer is armed, and every armed timer is the
\* one whose handle intervalRef holds.
C12_SingleTimer ==
    /\ Cardinality(timers) <= 1
    /\ \A t \in timers : t.id = intervalRef

\* The loop was started a second time while its first timer was armed (a
\* submission had been issued and nothing was ever stopped), and one timer
\* is armed.
C12_Witness ==
    /\ lastOp = "loadedmetadata"
    /\ phase = "mounted"
    /\ issued >= 1
    /\ stopped = {}
    /\ acquired = 2
    /\ Cardinality(timers) = 1

\* C13: the loop changes state only along Idle -> Starting (a startCamera
\* call), Starting -> Running (the acquired stream is ready), Starting ->
\* Idle (acquisition failure or stop) and Running -> Idle (stopCamera); no
\* other step, a response to a submission included, changes its state.
C13_LoopStateMachine ==
    [][(Mounted' /\ LoopState' # LoopState) =>
          \/ /\ LoopState = "Idle"
             /\ LoopState' = "Starting"
             /\ lastOp' = "startCamera"
          \/ /\ LoopState = "Starting"
             /\ LoopState' = "Running"
             /\ lastOp' = "loadedmetadata"
          \/ /\ LoopState = "Starting"
             /\ LoopState' = "Idle"
             /\ lastOp' \in {"getUserMedia:reject", "stopCamera"}
          \/ /\ LoopState = "Running"
             /\ LoopState' = "Idle"
             /\ lastOp' = "stopCamera"]_vars

\* C14: fog_detected is true exactly when the Laplacian variance is
\* strictly below the Laplacian threshold and the histogram standard
\* deviation is strictly below its threshold.
C14_FogDetectedRule ==
    Responded =>
        (response.fog_detected <=>
            /\ LessThan(response.laplacian_variance,
                        response.laplacian_threshold_used)
            /\ LessThan(response.histogram_std_dev,
                        response.std_dev_threshold_used))

\* One metric is below its threshold, the other is not: no fog is reported.
C14_Witness ==
    /\ Responded
    /\ LessThan(response.laplacian_variance, response.laplacian_threshold_used)
    /\ ~LessThan(response.histogram_std_dev, response.std_dev_threshold_used)
    /\ ~response.fog_detected

\* C15: with shortfall = 1 - min(lv / lt, sd / st) the intensity is Clear
\* when shortfall < 0 (both ratios above 1), Heavy when shortfall >= 0.5 (a
\* ratio of at most one half), Light in between; the advice is the fixed
\* text of the intensity.
C15_IntensityTiers ==
    Responded =>
        LET lv == response.laplacian_variance
            sd == response.histogram_std_dev
            lt == response.laplacian_threshold_used
            st == response.std_dev_threshold_used
            above == ~RatioAtMost(lv, lt, 1) /\ ~RatioAtMost(sd, st, 1)
            half == RatioAtMost(lv, lt, 2) \/ RatioAtMost(sd, st, 2)
        IN  /\ response.intensity \in {"Clear", "Light", "Heavy"}
            /\ response.intensity = "Clear" <=> above
            /\ response.intensity = "Heavy" <=> half
            /\ response.intensity = "Clear" =>
                   response.advice = "Conditions clear"
            /\ response.intensity = "Light" =>
                   response.advice = "Reduce speed, use fog lights"
            /\ response.intensity = "Heavy" =>
                   response.advice = "Pull over safely if visibility is critical"

\* The shortfall is exactly one half (the smaller ratio is 1/2, neither is
\* below it) and the intensity is Heavy.
C15_Witness ==
    /\ Responded
    /\ response.intensity = "Heavy"
    /\ ~LessThan([response.laplacian_variance EXCEPT !.num = 2 * @],
                 response.laplacian_threshold_used)
    /\ ~LessThan([response.histogram_std_dev EXCEPT !.num = 4 * @],
                 response.std_dev_threshold_used)

\* C16: for the metrics of the response, any thresholds that are not
\* higher than the ones used report fog only if the response does, and
\* give an intensity that is not more severe.
C16_MonotoneInThresholds ==
    Responded =>
        \A lt \in LaplacianThresholds, st \in StdDevThresholds :
            (/\ lt <= response.laplacian_threshold_used
             /\ st <= response.std_dev_threshold_used) =>
                /\ fogDetected(response.laplacian_variance,
                               response.histogram_std_dev, lt, st)
                       => response.fog_detected
                /\ Severity(intensity(response.laplacian_variance,
                                      response.histogram_std_dev, lt, st))
                       <= Severity(response.intensity)

\* Fog is reported, and with a lower Laplacian threshold it would not be.
C16_Witness ==
    /\ Responded
    /\ response.fog_detected
    /\ \E lt \in LaplacianThresholds :
           /\ lt < response.laplacian_threshold_used
           /\ ~fogDetected(response.laplacian_variance,
                           response.histogram_std_dev, lt,
                           response.std_dev_threshold_used)

\* C18: a uniform image has Laplacian variance 0 and histogram standard
\* deviation 0, and is classified as fog of intensity Heavy whatever the
\* thresholds.
C18_UniformImageIsHeavyFog ==
    (Responded /\ Uniform(pixelBuffer)) =>
        /\ response.laplacian_variance.num = 0
        /\ response.histogram_std_dev.num = 0
        /\ response.fog_detected
        /\ response.intensity = "Heavy"

\* A uniform image of more than one pixel that is not black was classified.
C18_Witness ==
    /\ Responded
    /\ Uniform(pixelBuffer)
    /\ Width(pixelBuffer) = 2
    /\ Height(pixelBuffer) = 2
    /\ pixelBuffer[1][1] = 20
    /\ response.intensity = "Heavy"

\* C19: the histogram of the response has exactly the 256 bins 0..255,
\* each a natural number, and they sum to width * height of the image.
C19_HistogramSumsToPixels ==
    Responded =>
        /\ DOMAIN response.histogram = 0..255
        /\ \A b \in 0..255 : response.histogram[b] \in Nat
        /\ SumRange(response.histogram, 0, 255) = Width(pixelBuffer) * Height(pixelBuffer)

\* An image of four pixels with saturated and black ones was counted.
C19_Witness ==
    /\ Responded
    /\ Width(pixelBuffer) * Height(pixelBuffer) = 4
    /\ response.histogram[255] = 2
    /\ response.histogram[0] = 1
    /\ response.histogram[20] = 1

\* C20: the response echoes the thresholds the classification used: those
\* the client put in the URL when it did, the defaults when it did not, as
\* in every request of the driver view.
C20_ThresholdsEchoed ==
    Responded =>
        /\ response.laplacian_threshold_used =
               IF sent = Null THEN DefaultThresholds.laplacian_threshold
               ELSE sent[1]
        /\ response.std_dev_threshold_used =
               IF sent = Null THEN DefaultThresholds.std_dev_threshold
               ELSE sent[2]
        /\ view = "driver" => sent = Null
        /\ response.fog_detected =
               fogDetected(response.laplacian_variance,
                           response.histogram_std_dev,
                           response.laplacian_threshold_used,
                           response.std_dev_threshold_used)
        /\ response.intensity =
               intensity(response.laplacian_variance,
                         response.histogram_std_dev,
                         response.laplacian_threshold_used,
                         response.std_dev_threshold_used)

\* A request of the driver view was answered with the defaults.
C20_Witness ==
    /\ Responded
    /\ view = "driver"
    /\ query.laplacian_threshold = Null
    /\ response.laplacian_threshold_used = 250
    /\ response.std_dev_threshold_used = 40

\* C21: a buffer that cannot be decoded is answered with a failure that
\* carries an error description and no metrics, classification or
\* histogram, and once the answer has reached the view its detectionResult
\* is null and, in the developer view, its histogram is empty.
C21_DecodeErrorGivesNoResult ==
    pixelBuffer = Undecodable =>
        /\ stage \in {"responded", "delivered"} =>
               /\ statusCode \notin 200..299
               /\ DOMAIN response = {"detail"}
        /\ stage = "delivered" =>
               /\ detectionResult = Null
               /\ view = "dev" => histogramData = <<>>
               /\ ~isDetecting

\* The developer view had a result on display, posted a buffer the service
\* could not decode, and has handled the answer.
C21_Witness ==
    /\ stage = "delivered"
    /\ pixelBuffer = Undecodable
    /\ view = "dev"
    /\ issued = 2
    /\ lastOp = "response:failure"
    /\ detectionResult = Null

\* C22: a submission is issued only while the loop is Running: right after
\* an axios.post of a mounted view the camera is on, a stream is attached
\* and the timer is armed.
C22_SubmitOnlyWhileRunning ==
    (lastOp = "submit" /\ Mounted) => Running

\* C23: right after a successful response is handled by a mounted view
\* whose loop is Running, detectionResult is the body of a response to a
\* request that is no longer in flight, error is null, and in the developer
\* view histogramData has one entry per element of the body's histogram,
\* with bin = index and frequency = value, and is empty when the body has
\* no histogram or an empty one.
C23_SuccessPublishesBody ==
    (lastOp = "response:success" /\ Mounted /\ Running) =>
        /\ error = Null
        /\ \E id \in 1..issued, h \in HistogramChoices :
              /\ \A r \in inflight : r.id # id
              /\ detectionResult = Some([req |-> id, histogram |-> h])
              /\ view = "dev" =>
                    /\ Len(histogramData) = IF h = Null THEN 0 ELSE Len(h[1])
                    /\ \A i \in 1..Len(histogramData) :
                          /\ histogramData[i].bin = i - 1
                          /\ histogramData[i].frequency = h[1][i]

\* The developer view has drawn the two bins of a response.
C23_Witness ==
    /\ lastOp = "response:success"
    /\ Mounted
    /\ Running
    /\ view = "dev"
    /\ detectionResult # Null
    /\ Len(histogramData) = 2
    /\ histogramData[2] = [bin |-> 1, frequency |-> 1]

\* C24: every issued submission eventually settles, and right after the
\* handler of a settled submission has run in a mounted view isDetecting is
\* false, on the success path and on the failure path.
C24_SubmissionsSettle ==
    /\ \A n \in 1..MaxReq : InFlight(n) ~> ~InFlight(n)
    /\ []((lastOp \in {"response:success", "response:failure"} /\ Mounted)
             => ~isDetecting)

\* The only submission of a driver view ran into the timeout, and the flag
\* is down again.
C24_Witness ==
    /\ lastOp = "response:failure"
    /\ Mounted
    /\ view = "driver"
    /\ error = Some("Connection timeout.")
    /\ issued = 1
    /\ inflight = {}
    /\ ~isDetecting

C26_DriverErrorMessages ==
    [][\A r \in inflight, e \in Failures :
         (view = "driver" /\ Mounted /\ ResponseFailure(r, e)) =>
             LET msg == IF e.code = "ECONNABORTED"
                            THEN "Connection timeout."
                        ELSE IF e.status = 400 THEN "Server error: 400"
                        ELSE IF e.status = 500 THEN "Server error: 500"
                        ELSE IF e.request THEN "No server response."
                        ELSE "System error."
             IN  /\ error' = Some(msg)
                 /\ error = Some(msg) => error' = error]_vars

\* A second submission of the driver view has failed without a response.
C26_Witness ==
    /\ view = "driver"
    /\ Mounted
    /\ lastOp = "response:failure"
    /\ issued = 2
    /\ inflight = {}
    /\ error = Some("No server response.")

\* C27: the classification is self-consistent: a response has intensity
\* Clear exactly when its fog_detected is false.
C27_ClearIffNoFog ==
    Responded => (response.intensity = "Clear" <=> ~response.fog_detected)

\* C28: the in-flight flag is accurate: while a submission of a mounted
\* view is unresolved, isDetecting is true.
C28_DetectingWhileInFlight ==
    (Mounted /\ inflight # {}) => isDetecting

\* C29: the timer is armed only while the camera is on: intervalRef holds a
\* timer only if isCameraOn is true and a stream is attached.
C29_TimerOnlyWhileCameraOn ==
    (Mounted /\ intervalRef # 0) => (isCameraOn /\ srcObject # 0)

\* C30: in the driver view error and detectionResult are never both set.
C30_ErrorExcludesResult ==
    (view = "driver" /\ Mounted) => ~(error # Null /\ detectionResult # Null)

\* C31: in the developer view the histogram shown belongs to the current
\* result: without a result histogramData is empty, and a histogramData
\* that is not empty is the histogram of detectionResult, bin by bin.
C31_HistogramOfCurrentResult ==
    (view = "dev" /\ Mounted) =>
        /\ detectionResult = Null => histogramData = <<>>
        /\ histogramData # <<>> =>
              /\ detectionResult # Null
              /\ detectionResult[1].histogram # Null
              /\ LET h == detectionResult[1].histogram[1]
                 IN  histogramData =
                         [i \in 1..Len(h) |-> [bin |-> i - 1,
                                               frequency |-> h[i]]]

\* The second response of the developer view has replaced the first and its
\* histogram is drawn.
C31_Witness ==
    /\ view = "dev"
    /\ Mounted
    /\ lastOp = "response:success"
    /\ detectionResult # Null
    /\ detectionResult[1].req = 2
    /\ Len(histogramData) = 2

\* C32: the thresholds of the developer view are always positive: they
\* start at 250 and 40, laplacianThreshold stays within 50..500 and
\* histStdDevThreshold within 10..100, so does every pair a submission
\* carries, and a slider changes a threshold only while the camera is on.
C32_ThresholdsInRange ==
    /\ laplacianThreshold \in 50..500
    /\ histStdDevThreshold \in 10..100
    /\ phase = "init" => UiThresholds = <<250, 40>>
    /\ \A r \in inflight :
          r.thr # Null => (r.thr[1] \in 50..500 /\ r.thr[2] \in 10..100)
    /\ lastOp = "setThreshold" => (view = "dev" /\ isCameraOn)

\* One slider has been dragged to its lower end after the other had been
\* dragged to its upper end.
C32_Witness ==
    /\ lastOp = "setThreshold"
    /\ isCameraOn
    /\ laplacianThreshold = 50
    /\ histStdDevThreshold = 100

====
